---- MODULE Spec2Model ----
(***************************************************************************)
(* Model of helpers/avconv.py: a script that transcodes one media file     *)
(* with avconv, after probing it with avprobe, and shows progress and ETA  *)
(* while the transcoder runs.                                              *)
(*                                                                         *)
(* Units.  Media positions, durations and wall-clock times are integers    *)
(* counted in hundredths of a second (the resolution of the "%.2f"-like    *)
(* numbers avprobe and avconv print), so 0.1 s is 10.  Bitrates are in     *)
(* kbit/s.  Python's None is the empty sequence, a present value v is      *)
(* <<v>>.  Text is a sequence of one-character strings.                    *)
(*                                                                         *)
(* Environment.  The file system is reduced to the two paths the script    *)
(* touches ("in" = args.path, "out" = any other path); the probe tool and  *)
(* the transcoder are nondeterministic: the probe may fail or print any    *)
(* of a few bitrate / Duration fields, the transcoder may fail to start,   *)
(* writes status lines carrying "time=<position> bitrate=..." to its       *)
(* stderr, and ends with any return code (negative: killed by a signal,    *)
(* as subprocess reports it).                                              *)
(*                                                                         *)
(* Arithmetic.  Python's floats are taken as exact: the slope of           *)
(* Speedometer.speed() is the fraction SpeedNom/SpeedDen.  os.remove and   *)
(* print are taken to succeed; os.stat fails when the input is missing.    *)
(*                                                                         *)
(* Specifications.  Spec follows the script from the parsed command line   *)
(* to its exit, over every combination of the arguments, with a            *)
(* transcoder that writes at most one status line.  MonitorSpec starts     *)
(* right after the transcoder was launched with its stderr piped and       *)
(* follows the monitoring loop over up to MaxLines status lines.  RunSpec  *)
(* starts after the launch, monitored or not, and adds fairness.           *)
(* SpeedometerSpec calls add and speed on a Speedometer alone, ParserSpec  *)
(* extends and searches the tail buffer alone, each up to MaxCalls times.  *)
(***************************************************************************)
EXTENDS Integers, Sequences, FiniteSets, TLC

VARIABLES
    args,           \* parsed command line: o, y, f, d, bitrate, ext
    files,          \* the paths that exist on disk
    pc,             \* position of the script
    outpath,        \* None or <<path>>
    avprobe,        \* what the probe printed: [bitrate, duration], both optional
    probeStarted,   \* the probe tool was invoked
    bitrate_src,    \* None or <<kbit/s>>
    bitrate,        \* None or <<kbit/s>>
    force,          \* line 90
    duration,       \* None or <<hundredths of a second>>
    avconv,         \* the transcoder: [state, rc, piped, left]; left counts the
                    \* status lines it is still going to write
    stream,         \* everything the transcoder wrote to its stderr pipe
    offset,         \* how much of stream the script has read
    ret,            \* None or <<return code>>
    output_buffer,  \* deque(maxlen=256) of characters
    speedometer,    \* [x, y]: the two deques of Speedometer
    clock,          \* last value time.time() returned
    displayed,      \* the progress lines printed, in order
    waited,         \* avconv.wait() was called
    polls,          \* number of avconv.poll() calls
    exitStatus,     \* None or <<exit status of the script>>
    printed,        \* the messages printed, other than progress lines
    markers,        \* the positions the transcoder has written, in order
    call            \* the last call of the Speedometer or of the position
                    \* search, with what it returned or raised, and the number
                    \* of calls so far: [op, y, outcome, found, n]

vars == <<args, files, pc, outpath, avprobe, probeStarted, bitrate_src, bitrate,
          force, duration, avconv, stream, offset, ret, output_buffer,
          speedometer, clock, displayed, waited, polls, exitStatus, printed,
          markers, call>>

(***************************************************************************)
(* Bounds of the model                                                     *)
(***************************************************************************)
\* status lines the transcoder writes at most in a run whose monitoring loop
\* is followed in full (MonitorSpec)
MaxLines == 2

(***************************************************************************)
(* Values                                                                  *)
(***************************************************************************)
\* calls made on an object exercised on its own
MaxCalls == 3

None == <<>>
Some(v) == <<v>>
Val(o) == o[1]

\* bitrates tried for --bitrate and printed by the probe (0 is falsy in Python)
RequestedBitrates == {0, 128, 192}
SourceBitrates == {64, 128, 192}
\* "Duration: hh:mm:ss.ff" fields the probe prints
ProbeDurations == {<<0, 0, 0, 0>>, <<0, 0, 2, 0>>}
\* media positions the transcoder reports (hundredths of a second)
Positions == {100, 300}
\* what time.time() advances by between two calls
ClockSteps == {0, 10, 30}
\* Popen.returncode values: exit codes, and -N for death by signal N
ReturnCodes == {0, 1, -9}
\* extensions of args.path
Extensions == {"mp3", "wav"}
\* status lines the transcoder writes in a run followed from the command
\* line to the exit (Spec)
LineBudgets == {1}

Min(a, b) == IF a < b THEN a ELSE b
Abs(a) == IF a < 0 THEN -a ELSE a
\* floor(a / b) for b # 0
FloorDiv(a, b) == IF b > 0 THEN a \div b ELSE (-a) \div (-b)

(***************************************************************************)
(* Text: decimal numbers, the status line, the position regex              *)
(***************************************************************************)
Digit == {"0", "1", "2", "3", "4", "5", "6", "7", "8", "9"}
DigitChars == <<"0", "1", "2", "3", "4", "5", "6", "7", "8", "9">>
DigitValue(c) == CHOOSE v \in 0..9 : DigitChars[v + 1] = c

RECURSIVE DigitsValue(_)
\* int() of a string of digits
DigitsValue(s) ==
    IF s = <<>> THEN 0
    ELSE 10 * DigitsValue(SubSeq(s, 1, Len(s) - 1)) + DigitValue(s[Len(s)])

RECURSIVE Decimal(_)
\* the digits of n >= 0
Decimal(n) ==
    IF n < 10 THEN <<DigitChars[n + 1]>>
    ELSE Decimal(n \div 10) \o <<DigitChars[(n % 10) + 1]>>

\* a position as the transcoder prints it: seconds with two decimals
FormatPosition(p) ==
    Decimal(p \div 100) \o <<".">> \o
    <<DigitChars[((p % 100) \div 10) + 1], DigitChars[(p % 10) + 1]>>

TimeEq == <<"t", "i", "m", "e", "=">>

\* one status line of the transcoder, ended by a carriage return
StatusLine(p) ==
    TimeEq \o FormatPosition(p) \o
    <<" ", "b", "i", "t", "r", "a", "t", "e", "=", "6", "4", "k", "\r">>

StartsWith(s, i, pat) ==
    /\ i + Len(pat) - 1 <= Len(s)
    /\ \A k \in 1..Len(pat) : s[i + k - 1] = pat[k]

AllDigits(s, a, b) == \A k \in a..b : s[k] \in Digit

\* s[g..e] matches \d+.\d+ ('.' is any character but a newline)
GroupMatches(s, g, e) ==
    \E m \in (g + 1)..(e - 1) :
        /\ AllDigits(s, g, m - 1)
        /\ s[m] # "\n"
        /\ AllDigits(s, m + 1, e)

\* the ends e of a match of time=(\d+.\d+) b that starts at s[i]
MarkerEnds(s, i) ==
    IF ~StartsWith(s, i, TimeEq) THEN {}
    ELSE {e \in (i + 7)..(Len(s) - 2) :
            /\ s[e + 1] = " "
            /\ s[e + 2] = "b"
            /\ GroupMatches(s, i + 5, e)}

\* number of newlines before s[i]: the line s[i] is on
LineOf(s, i) == Cardinality({k \in 1..(i - 1) : s[k] = "\n"})

SetMax(S) == CHOOSE m \in S : \A k \in S : k <= m
SetMin(S) == CHOOSE m \in S : \A k \in S : m <= k

\* re.search(r'.*time=(\d+.\d+) b', s): group 1 of the match, or None.  The
\* search takes the first line that holds a match ('.*' stops at a newline)
\* and, '.*' being greedy, the last match on that line.
SearchPosition(s) ==
    LET hits == {i \in 1..Len(s) : MarkerEnds(s, i) # {}}
    IN  IF hits = {} THEN None
        ELSE LET line == SetMin({LineOf(s, i) : i \in hits})
                 i == SetMax({h \in hits : LineOf(s, h) = line})
                 e == SetMax(MarkerEnds(s, i))
             IN  Some(SubSeq(s, i + 5, e))

NonDigits(g) == {k \in 1..Len(g) : g[k] \notin Digit}

\* float(g) succeeds: digits, or digits '.' digits (exponents and signs do
\* not occur in the text the regex lets through from these streams)
FloatOk(g) == NonDigits(g) = {} \/ \E k \in 1..Len(g) : NonDigits(g) = {k} /\ g[k] = "."

\* the fraction digits as hundredths
Hundredths(fp) ==
    IF Len(fp) = 1 THEN 10 * DigitsValue(fp)
    ELSE DigitsValue(SubSeq(fp, 1, 2))

\* float(g), in hundredths
FloatValue(g) ==
    IF NonDigits(g) = {} THEN 100 * DigitsValue(g)
    ELSE LET k == CHOOSE k \in NonDigits(g) : TRUE
         IN  100 * DigitsValue(SubSeq(g, 1, k - 1))
             + Hundredths(SubSeq(g, k + 1, Len(g)))

(***************************************************************************)
(* Speedometer                                                             *)
(***************************************************************************)
\* Speedometer.__init__ defaults: N samples, epsilon and delta of 0.1
N == 100
Epsilon == 10
Delta == 10

EmptySpeedometer == [x |-> <<>>, y |-> <<>>]

\* append of a deque built without maxlen
DequeAppendUnbounded(q, v, maxlen) == q \o <<v>>

\* collections.deque(maxlen).append
DequeAppend(q, v, maxlen) ==
    IF Len(q) >= maxlen THEN Tail(q) \o <<v>> ELSE q \o <<v>>

\* the test of Speedometer.add without its first operand
TooCloseInPositionOnly(sp, t, yn) ==
    Len(sp.y) > 0 /\ Abs(yn - sp.y[Len(sp.y)]) < Epsilon

\* the test of Speedometer.add with "and" for its "or"
TooCloseBoth(sp, t, yn) ==
    /\ Len(sp.x) > 0 /\ Abs(t - sp.x[Len(sp.x)]) < Delta
    /\ Len(sp.y) > 0 /\ Abs(yn - sp.y[Len(sp.y)]) < Epsilon

\* the test of Speedometer.add: the sample is too close to the last one
TooClose(sp, t, yn) ==
    \/ Len(sp.x) > 0 /\ Abs(t - sp.x[Len(sp.x)]) < Delta
    \/ Len(sp.y) > 0 /\ Abs(yn - sp.y[Len(sp.y)]) < Epsilon

\* Speedometer.add(yn) when time.time() returns t
SpeedometerAdd(sp, t, yn) ==
    IF TooClose(sp, t, yn) THEN sp
    ELSE [x |-> DequeAppend(sp.x, t, N), y |-> DequeAppend(sp.y, yn, N)]

RECURSIVE Sum(_)
Sum(s) == IF s = <<>> THEN 0 ELSE Head(s) + Sum(Tail(s))

\* the sequence moved by the midpoint of its ends (no move changes the
\* sums of deviations speed() computes; this one keeps the numbers of a
\* window of N samples within 32 bits)
Centred(s) ==
    LET n == Len(s)
        c == IF n = 0 THEN 0 ELSE s[1] + (s[n] - s[1]) \div 2
    IN  [i \in 1..n |-> s[i] - c]

\* nom with the deviations of x in the place of those of y
SpeedNomOfTimes(sp) ==
    LET n == Len(sp.x)
        u == Centred(sp.x)
    IN  n * Sum([i \in 1..n |-> u[i] * u[i]]) - Sum(u) * Sum(u)

\* Speedometer.speed() returns nom/den.  With n samples,
\*   nom = sum (x[i]-xm)*(y[i]-ym) = (n*sum(x*y) - sum(x)*sum(y)) / n
\*   den = sum (x[i]-xm)^2         = (n*sum(x*x) - sum(x)^2) / n
\* so the slope is SpeedNom/SpeedDen, and den = 0 exactly when SpeedDen = 0.
SpeedNom(sp) ==
    LET n == Len(sp.x)
        u == Centred(sp.x)
        v == Centred(sp.y)
    IN  n * Sum([i \in 1..n |-> u[i] * v[i]]) - Sum(u) * Sum(v)

SpeedDen(sp) ==
    LET n == Len(sp.x)
        u == Centred(sp.x)
    IN  n * Sum([i \in 1..n |-> u[i] * u[i]]) - Sum(u) * Sum(u)

\* speed() raises: ValueError below two samples, ZeroDivisionError on den = 0
SpeedRaises(sp) == Len(sp.x) < 2 \/ SpeedDen(sp) = 0

\* speed() with the test of line 156 off by one ("n < 1")
SpeedOutcomeFromOne(sp) ==
    IF Len(sp.x) < 1 THEN [kind |-> "ValueError", nom |-> 0, den |-> 0]
    ELSE IF SpeedDen(sp) = 0
    THEN [kind |-> "ZeroDivisionError", nom |-> SpeedNom(sp), den |-> 0]
    ELSE [kind |-> "value", nom |-> SpeedNom(sp), den |-> SpeedDen(sp)]

\* what a call of speed() does: raise ValueError, raise ZeroDivisionError at
\* nom/den, or return the fraction nom/den
SpeedOutcome(sp) ==
    IF Len(sp.x) < 2 THEN [kind |-> "ValueError", nom |-> 0, den |-> 0]
    ELSE IF SpeedDen(sp) = 0
    THEN [kind |-> "ZeroDivisionError", nom |-> SpeedNom(sp), den |-> 0]
    ELSE [kind |-> "value", nom |-> SpeedNom(sp), den |-> SpeedDen(sp)]

\* the window after k calls of add, 0.1 s apart, on a stream played at
\* normal speed
RegularWindow(k) ==
    [x |-> [i \in 1..k |-> Delta * i], y |-> [i \in 1..k |-> Epsilon * i]]

(***************************************************************************)
(* Bitrate and the decision to transcode                                   *)
(***************************************************************************)
\* the path written when -o is absent differs from args.path (another
\* extension replaces the old one or is appended to it): it is "out"
OutputPath(a) == IF a.o # None THEN Val(a.o) ELSE "out"

\* the test with its "not" lost
OutputBlockedWhenAllowed(a, out, fs) == out \in fs /\ a.y

\* os.path.exists(outpath) and not args.y
OutputBlocked(a, out, fs) == out \in fs /\ ~a.y

EmptyProbe == [bitrate |-> None, duration |-> None]

\* the fallback of line 75 taken to be the default request
SourceBitrateFallback128(probe) ==
    IF probe.bitrate # None THEN Val(probe.bitrate) ELSE 128

\* re.search(r'bitrate: ([0-9]+) kb/s', avprobe), else 256
SourceBitrate(probe) ==
    IF probe.bitrate # None THEN Val(probe.bitrate) ELSE 256

\* "if not args.bitrate": None and 0 are both false; int(128) cannot raise
RequestedBitrate(a, src) ==
    IF a.bitrate = None \/ Val(a.bitrate) = 0 THEN 128 ELSE Val(a.bitrate)

\* the bitrate without line 85
UnclampedBitrate(a, src) == RequestedBitrate(a, src)

\* line 85 on top of lines 77-83
EffectiveBitrate(a, src) == Min(RequestedBitrate(a, src), src)

AacExtensions == {"mp3", "aac", "3gp", "mp4", "m4a", "m4b", "mpg"}
HasAacExt(a) == a.ext \in AacExtensions

\* line 90 without its second operand
ForceFlagOnly(a, eff, src) == a.f

\* line 90
Force(a, eff, src) == a.f \/ eff # src

NothingToDo(a, eff, src) == ~(Force(a, eff, src) \/ HasAacExt(a))

\* hh*3600.0 + mm*60.0 + ss + frac_ss/100.0, in hundredths
DurationOf(probe) ==
    IF probe.duration = None THEN None
    ELSE LET d == Val(probe.duration)
         IN  Some(d[1] * 360000 + d[2] * 6000 + d[3] * 100 + d[4])

\* the status a process that calls exit(n) ends with
ExitStatus(n) == n % 256

(***************************************************************************)
(* The script                                                              *)
(***************************************************************************)
\* no method called yet; outcome is the result of speed(), found the result
\* of the position search
NoOutcome == [kind |-> "none", nom |-> 0, den |-> 0]
NoCall == [op |-> "none", y |-> 0, outcome |-> NoOutcome, found |-> None, n |-> 0]

NoProcess == [state |-> "none", rc |-> 0, piped |-> FALSE, left |-> 0]

Init ==
    /\ args \in [o : {None, Some("in"), Some("out")},
                 y : BOOLEAN, f : BOOLEAN, d : BOOLEAN,
                 bitrate : {None} \cup {Some(b) : b \in RequestedBitrates},
                 ext : Extensions]
    /\ files \in SUBSET {"in", "out"}
    /\ pc = "start"
    /\ outpath = None
    /\ avprobe = EmptyProbe
    /\ probeStarted = FALSE
    /\ bitrate_src = None
    /\ bitrate = None
    /\ force = FALSE
    /\ duration = None
    /\ avconv = NoProcess
    /\ stream = <<>>
    /\ offset = 0
    /\ ret = None
    /\ output_buffer = <<>>
    /\ speedometer = EmptySpeedometer
    /\ clock = 0
    /\ displayed = <<>>
    /\ waited = FALSE
    /\ polls = 0
    /\ exitStatus = None
    /\ printed = <<>>
    /\ markers = <<>>
    /\ call = NoCall

\* exit(n)
Exit(n) == pc' = "done" /\ exitStatus' = Some(ExitStatus(n))

\* an exception nothing catches: traceback, exit status 1
Crash == pc' = "crashed" /\ exitStatus' = Some(1)

\* lines 33-47
DetermineOutpath ==
    /\ pc = "start"
    /\ outpath' = Some(OutputPath(args))
    /\ IF args.o # None /\ OutputPath(args) = "in"
       THEN Exit(1) /\ printed' = Append(printed, "paths have to be different")
       ELSE pc' = "exists" /\ UNCHANGED <<exitStatus, printed>>
    /\ UNCHANGED <<call, args, files, avprobe, probeStarted, bitrate_src, bitrate, force,
                   duration, avconv, stream, offset, ret, output_buffer,
                   speedometer, clock, displayed, waited, polls, markers>>

\* lines 49-53
CheckExists ==
    /\ pc = "exists"
    /\ IF OutputBlocked(args, Val(outpath), files)
       THEN Exit(1) /\ printed' = Append(printed, "path exists")
       ELSE /\ pc' = "probe"
            /\ printed' = Append(printed, "output path")
            /\ UNCHANGED exitStatus
    /\ UNCHANGED <<call, args, files, outpath, avprobe, probeStarted, bitrate_src, bitrate,
                   force, duration, avconv, stream, offset, ret, output_buffer,
                   speedometer, clock, displayed, waited, polls, markers>>

\* what a successful avprobe run can print
ProbeOutputs ==
    [bitrate : {None} \cup {Some(b) : b \in SourceBitrates},
     duration : {None} \cup {Some(d) : d \in ProbeDurations}]

\* lines 56-66: os.stat raises when the input is missing; a pipe is not
\* probed; check_output returns the output or raises (caught: avprobe = '')
Probe ==
    /\ pc = "probe"
    /\ IF "in" \notin files
       THEN Crash /\ UNCHANGED <<avprobe, probeStarted, printed>>
       ELSE /\ pc' = "resolve"
            /\ UNCHANGED exitStatus
            /\ \E isFifo \in BOOLEAN, ok \in BOOLEAN :
                 IF isFifo
                 THEN /\ avprobe' = EmptyProbe
                      /\ printed' = Append(printed, "input from pipe")
                      /\ UNCHANGED probeStarted
                 ELSE /\ probeStarted' = TRUE
                      /\ IF ok
                         THEN /\ \E out \in ProbeOutputs : avprobe' = out
                              /\ UNCHANGED printed
                         ELSE /\ avprobe' = EmptyProbe
                              /\ printed' = Append(printed, "avprobe failed")
    /\ UNCHANGED <<call, args, files, outpath, bitrate_src, bitrate, force, duration,
                   avconv, stream, offset, ret, output_buffer, speedometer, clock,
                   displayed, waited, polls, markers>>

\* lines 69-94
Resolve ==
    /\ pc = "resolve"
    /\ LET src == SourceBitrate(avprobe)
           eff == EffectiveBitrate(args, src)
           said == IF avprobe.bitrate = None
                   THEN Append(printed, "source bitrate can't be determined")
                   ELSE printed
       IN  /\ bitrate_src' = Some(src)
           /\ bitrate' = Some(eff)
           /\ force' = Force(args, eff, src)
           /\ IF NothingToDo(args, eff, src)
              THEN Exit(0) /\ printed' = Append(said, "nothing to do")
              ELSE pc' = "launch" /\ printed' = said /\ UNCHANGED exitStatus
    /\ UNCHANGED <<call, args, files, outpath, avprobe, probeStarted, duration, avconv,
                   stream, offset, ret, output_buffer, speedometer, clock,
                   displayed, waited, polls, markers>>

\* lines 97-107: what is printed before the transcoder is started
LaunchMessages(out, probe) ==
    IF probe.duration = None THEN Append(out, "converting")
    ELSE out \o <<"converting", "duration">>

\* lines 97-131 without the exit(1) of line 131
LaunchWithoutExit ==
    /\ pc = "launch"
    /\ duration' = DurationOf(avprobe)
    /\ \E started \in BOOLEAN, lines \in LineBudgets :
         avconv' = [state |-> IF started THEN "running" ELSE "failed", rc |-> 0,
                    piped |-> DurationOf(avprobe) # None,
                    left |-> IF DurationOf(avprobe) # None THEN lines ELSE 0]
    /\ pc' = "run"
    /\ printed' = LaunchMessages(printed, avprobe)
    /\ UNCHANGED <<call, args, files, outpath, avprobe, probeStarted, bitrate_src, bitrate,
                   force, stream, offset, ret, output_buffer, speedometer, clock,
                   displayed, waited, polls, markers, exitStatus>>

\* lines 97-131: Popen starts the transcoder, with its stderr piped when the
\* duration is known, or raises OSError
Launch ==
    /\ pc = "launch"
    /\ duration' = DurationOf(avprobe)
    /\ \E started \in BOOLEAN, lines \in LineBudgets :
         IF started
         THEN /\ avconv' = [state |-> "running", rc |-> 0,
                            piped |-> DurationOf(avprobe) # None,
                            left |-> IF DurationOf(avprobe) # None THEN lines ELSE 0]
              /\ pc' = "run"
              /\ UNCHANGED exitStatus
              /\ printed' = LaunchMessages(printed, avprobe)
         ELSE /\ avconv' = [avconv EXCEPT !.state = "failed"]
              /\ printed' = Append(LaunchMessages(printed, avprobe), "avconv failed")
              /\ Exit(1)
    /\ UNCHANGED <<call, args, files, outpath, avprobe, probeStarted, bitrate_src, bitrate,
                   force, stream, offset, ret, output_buffer, speedometer, clock,
                   displayed, waited, polls, markers>>

(***************************************************************************)
(* The transcoder process                                                  *)
(***************************************************************************)
\* the transcoder writes one more status line to its piped stderr
AvconvWrite ==
    /\ avconv.state = "running"
    /\ avconv.piped
    /\ avconv.left > 0
    /\ avconv' = [avconv EXCEPT !.left = @ - 1]
    /\ \E p \in Positions :
         /\ stream' = stream \o StatusLine(p)
         /\ markers' = Append(markers, p)
    /\ UNCHANGED <<call, args, files, pc, outpath, avprobe, probeStarted, bitrate_src,
                   bitrate, force, duration, offset, ret, output_buffer,
                   speedometer, clock, displayed, waited, polls, exitStatus,
                   printed>>

\* the transcoder ends, which also ends its stderr
AvconvExit ==
    /\ avconv.state = "running"
    /\ \E rc \in ReturnCodes :
         avconv' = [avconv EXCEPT !.state = "exited", !.rc = rc]
    /\ UNCHANGED <<call, args, files, pc, outpath, avprobe, probeStarted, bitrate_src,
                   bitrate, force, duration, stream, offset, ret, output_buffer,
                   speedometer, clock, displayed, waited, polls, exitStatus,
                   markers,
                   printed>>

(***************************************************************************)
(* Waiting for the transcoder, with or without progress                    *)
(***************************************************************************)
\* lines 166-167: avconv.wait() returns when the process has ended
Wait ==
    /\ pc = "run"
    /\ duration = None
    /\ avconv.state = "exited"
    /\ ret' = Some(avconv.rc)
    /\ waited' = TRUE
    /\ pc' = "finish"
    /\ UNCHANGED <<call, args, files, outpath, avprobe, probeStarted, bitrate_src, bitrate,
                   force, duration, avconv, stream, offset, output_buffer,
                   speedometer, clock, displayed, polls, exitStatus, markers,
                   printed>>

UnknownLine == [kind |-> "unknown", progress |-> 0, etaMin |-> 0, etaSec |-> 0]
FinalLine == [kind |-> "final", progress |-> 1000, etaMin |-> 0, etaSec |-> 0]

\* lines 168-172
StartMonitor ==
    /\ pc = "run"
    /\ duration # None
    /\ ret' = None
    /\ output_buffer' = <<>>
    /\ displayed' = Append(displayed, UnknownLine)
    /\ speedometer' = EmptySpeedometer
    /\ pc' = "poll"
    /\ UNCHANGED <<call, args, files, outpath, avprobe, probeStarted, bitrate_src, bitrate,
                   force, duration, avconv, stream, offset, clock, waited, polls,
                   exitStatus, markers,
                   printed>>

\* Popen.poll(): the return code once the process has ended, else None
PollResult(proc) == IF proc.state = "exited" THEN Some(proc.rc) ELSE None

\* lines 174-175
Poll ==
    /\ pc = "poll"
    /\ ret' = PollResult(avconv)
    /\ polls' = polls + 1
    /\ pc' = "read"
    /\ UNCHANGED <<call, args, files, outpath, avprobe, probeStarted, bitrate_src, bitrate,
                   force, duration, avconv, stream, offset, output_buffer,
                   speedometer, clock, displayed, waited, exitStatus, markers,
                   printed>>

\* avconv.stderr.read(16) and deque(maxlen=256)
ReadSize == 16
BufferMaxLen == 256

\* read(n) returns once n characters are there or the stream has ended
CanRead(proc, avail) == avail >= ReadSize \/ proc.state = "exited"

ReadChunk(str, off) == SubSeq(str, off + 1, off + Min(ReadSize, Len(str) - off))

\* deque.extend
DequeExtend(q, chunk, maxlen) ==
    LET s == q \o chunk
    IN  IF Len(s) > maxlen THEN SubSeq(s, Len(s) - maxlen + 1, Len(s)) ELSE s

\* '%.1f' of progress*100.0, in tenths of a percent
ProgressShown(position, dur) == (2000 * position + dur) \div (2 * dur)

\* (duration-position)/speedometer.speed() raises ValueError or
\* ZeroDivisionError (speed() raised, or returned 0.0); both are caught
EtaRaises(sp) == SpeedRaises(sp) \/ SpeedNom(sp) = 0

\* t_remaining in seconds is (dur-position)/100 / (SpeedNom/SpeedDen);
\* '%d:%02d' % (t_remaining//60, t_remaining%60)
EtaMinutes(sp, dur, position) ==
    FloorDiv((dur - position) * SpeedDen(sp), 6000 * SpeedNom(sp))

EtaSeconds(sp, dur, position) ==
    FloorDiv((dur - position) * SpeedDen(sp), 100 * SpeedNom(sp)) % 60

\* the line printed at 191-192
StatusShown(sp, dur, position) ==
    [kind |-> "status", progress |-> ProgressShown(position, dur),
     etaMin |-> EtaMinutes(sp, dur, position),
     etaSec |-> EtaSeconds(sp, dur, position)]

\* the test of "while(ret is None)" after one pass of the body
AfterPass(r) == IF r = None THEN "poll" ELSE "final"

\* the loop body with the print of lines 191-192 moved out of the try block:
\* a line is shown for every position found, with a blank ETA when there is
\* no estimate
MonitorShowsEveryPosition ==
    /\ pc = "read"
    /\ CanRead(avconv, Len(stream) - offset)
    /\ LET chunk == ReadChunk(stream, offset)
           buf == DequeExtend(output_buffer, chunk, BufferMaxLen)
           found == SearchPosition(buf)
       IN  /\ offset' = offset + Len(chunk)
           /\ output_buffer' = buf
           /\ IF found = None
              THEN /\ pc' = AfterPass(ret)
                   /\ UNCHANGED <<speedometer, clock, displayed, exitStatus, call>>
              ELSE IF ~FloatOk(Val(found)) \/ Val(duration) = 0
              THEN /\ Crash
                   /\ UNCHANGED <<speedometer, clock, displayed, call>>
              ELSE \E step \in ClockSteps :
                     LET position == FloatValue(Val(found))
                         t == clock + step
                         sp == SpeedometerAdd(speedometer, t, position)
                     IN  /\ clock' = t
                         /\ speedometer' = sp
                         /\ call' = [op |-> "add, speed", y |-> position,
                                     outcome |-> SpeedOutcome(sp),
                                     found |-> found, n |-> call.n + 1]
                         /\ displayed' =
                              IF EtaRaises(sp)
                              THEN Append(displayed,
                                          [kind |-> "status",
                                           progress |-> ProgressShown(position, Val(duration)),
                                           etaMin |-> 0, etaSec |-> 0])
                              ELSE Append(displayed,
                                          StatusShown(sp, Val(duration), position))
                         /\ pc' = AfterPass(ret)
                         /\ UNCHANGED exitStatus
    /\ UNCHANGED <<args, files, outpath, avprobe, probeStarted, bitrate_src, bitrate,
                   force, duration, avconv, stream, ret, waited, polls, markers,
                   printed>>

\* lines 176-194, one pass of the loop body after the poll; call records what
\* add and speed were called with and what speed() did
Monitor ==
    /\ pc = "read"
    /\ CanRead(avconv, Len(stream) - offset)
    /\ LET chunk == ReadChunk(stream, offset)
           buf == DequeExtend(output_buffer, chunk, BufferMaxLen)
           found == SearchPosition(buf)
       IN  /\ offset' = offset + Len(chunk)
           /\ output_buffer' = buf
           /\ IF found = None
              THEN /\ pc' = AfterPass(ret)
                   /\ UNCHANGED <<speedometer, clock, displayed, exitStatus, call>>
              ELSE IF ~FloatOk(Val(found)) \/ Val(duration) = 0
              THEN \* ValueError of float(), ZeroDivisionError of position/duration
                   /\ Crash
                   /\ UNCHANGED <<speedometer, clock, displayed, call>>
              ELSE \E step \in ClockSteps :
                     LET position == FloatValue(Val(found))
                         t == clock + step
                         sp == SpeedometerAdd(speedometer, t, position)
                     IN  /\ clock' = t
                         /\ speedometer' = sp
                         /\ call' = [op |-> "add, speed", y |-> position,
                                     outcome |-> SpeedOutcome(sp),
                                     found |-> found, n |-> call.n + 1]
                         /\ displayed' =
                              IF EtaRaises(sp) THEN displayed
                              ELSE Append(displayed,
                                          StatusShown(sp, Val(duration), position))
                         /\ pc' = AfterPass(ret)
                         /\ UNCHANGED exitStatus
    /\ UNCHANGED <<args, files, outpath, avprobe, probeStarted, bitrate_src, bitrate,
                   force, duration, avconv, stream, ret, waited, polls, markers,
                   printed>>

\* line 196
Final ==
    /\ pc = "final"
    /\ displayed' = Append(displayed, FinalLine)
    /\ pc' = "finish"
    /\ UNCHANGED <<call, args, files, outpath, avprobe, probeStarted, bitrate_src, bitrate,
                   force, duration, avconv, stream, offset, ret, output_buffer,
                   speedometer, clock, waited, polls, exitStatus, markers,
                   printed>>

\* lines 199-201: os.remove(args.path) when -d was given
RemoveSource(a, fs) == IF a.d THEN fs \ {"in"} ELSE fs

\* lines 199-204
Finish ==
    /\ pc = "finish"
    /\ files' = RemoveSource(args, files)
    /\ Exit(Val(ret))
    /\ UNCHANGED <<call, args, outpath, avprobe, probeStarted, bitrate_src, bitrate, force,
                   duration, avconv, stream, offset, ret, output_buffer,
                   speedometer, clock, displayed, waited, polls, markers,
                   printed>>

Next ==
    \/ DetermineOutpath
    \/ CheckExists
    \/ Probe
    \/ Resolve
    \/ Launch
    \/ AvconvWrite
    \/ AvconvExit
    \/ Wait
    \/ StartMonitor
    \/ Poll
    \/ Monitor
    \/ Final
    \/ Finish

Spec == Init /\ [][Next]_vars

(***************************************************************************)
(* The monitoring loop alone: the state right after Popen has started the  *)
(* transcoder with its stderr piped (line 128), for a run of               *)
(* "avconv.py in.mp3" whose probe printed 128 kb/s and a Duration          *)
(***************************************************************************)
MonitorInit ==
    /\ args \in [o : {None}, y : {FALSE}, f : {FALSE}, d : BOOLEAN,
                 bitrate : {None}, ext : {"mp3"}]
    /\ files = {"in"}
    /\ pc = "run"
    /\ outpath = Some("out")
    /\ avprobe \in [bitrate : {Some(128)},
                    duration : {Some(d) : d \in ProbeDurations}]
    /\ probeStarted = TRUE
    /\ bitrate_src = Some(128)
    /\ bitrate = Some(128)
    /\ force = FALSE
    /\ duration = DurationOf(avprobe)
    /\ avconv = [state |-> "running", rc |-> 0, piped |-> TRUE, left |-> MaxLines]
    /\ stream = <<>>
    /\ offset = 0
    /\ ret = None
    /\ output_buffer = <<>>
    /\ speedometer = EmptySpeedometer
    /\ clock = 0
    /\ displayed = <<>>
    /\ waited = FALSE
    /\ polls = 0
    /\ exitStatus = None
    /\ printed = <<>>
    /\ markers = <<>>
    /\ call = NoCall

MonitorNext ==
    \/ AvconvWrite
    \/ AvconvExit
    \/ StartMonitor
    \/ Poll
    \/ Monitor
    \/ Final
    \/ Finish

MonitorSpec == MonitorInit /\ [][MonitorNext]_vars

(***************************************************************************)
(* The run of the transcoder, monitored or not, under fairness: the state  *)
(* right after Popen has started the transcoder (line 128), with or        *)
(* without a Duration in the probe's output.  The script takes a step      *)
(* whenever it has one to take (a blocked wait() or read() is not such a   *)
(* step), and the transcoder ends.                                         *)
(***************************************************************************)
RunInit ==
    /\ args \in [o : {None}, y : {FALSE}, f : {FALSE}, d : BOOLEAN,
                 bitrate : {None}, ext : {"mp3"}]
    /\ files = {"in"}
    /\ pc = "run"
    /\ outpath = Some("out")
    /\ avprobe \in [bitrate : {Some(128)},
                    duration : {None} \cup {Some(d) : d \in ProbeDurations}]
    /\ probeStarted = TRUE
    /\ bitrate_src = Some(128)
    /\ bitrate = Some(128)
    /\ force = FALSE
    /\ duration = DurationOf(avprobe)
    /\ avconv = [state |-> "running", rc |-> 0, piped |-> duration # None,
                 left |-> IF duration # None THEN MaxLines ELSE 0]
    /\ stream = <<>>
    /\ offset = 0
    /\ ret = None
    /\ output_buffer = <<>>
    /\ speedometer = EmptySpeedometer
    /\ clock = 0
    /\ displayed = <<>>
    /\ waited = FALSE
    /\ polls = 0
    /\ exitStatus = None
    /\ printed = <<>>
    /\ markers = <<>>
    /\ call = NoCall

\* the steps of the script other than the pass of the loop body
ScriptStep ==
    \/ Wait
    \/ StartMonitor
    \/ Poll
    \/ Final
    \/ Finish

RunNext ==
    \/ AvconvWrite
    \/ AvconvExit
    \/ ScriptStep
    \/ Monitor

\* Monitor can take a step: the script is at the read and the read returns
MonitorEnabled == pc = "read" /\ CanRead(avconv, Len(stream) - offset)

\* WF_vars(Monitor), with MonitorEnabled written for ENABLED <<Monitor>>_vars
\* (every step of Monitor changes pc)
MonitorFair == []<>~MonitorEnabled \/ []<><<Monitor>>_vars

RunSpec ==
    /\ RunInit
    /\ [][RunNext]_vars
    /\ WF_vars(ScriptStep)
    /\ WF_vars(AvconvExit)
    /\ MonitorFair

(***************************************************************************)
(* A Speedometer on its own (lines 134-163): an object built with the      *)
(* defaults, holding a regular window of one of a few sizes, on which add  *)
(* and speed are called up to MaxCalls times.  The clock never runs        *)
(* backwards.  The variables of the script stay as they are.               *)
(***************************************************************************)
WindowSizes == {0, 1, 2, N - 1, N}

\* how far the position passed to add is from the last retained one
PositionSteps == {-10, 0, 10, 20}

\* the variables of the script while an object is exercised on its own
Idle ==
    /\ args = [o |-> None, y |-> FALSE, f |-> FALSE, d |-> FALSE,
               bitrate |-> None, ext |-> "mp3"]
    /\ files = {"in"}
    /\ pc = "start"
    /\ outpath = None
    /\ avprobe = EmptyProbe
    /\ probeStarted = FALSE
    /\ bitrate_src = None
    /\ bitrate = None
    /\ force = FALSE
    /\ duration = None
    /\ avconv = NoProcess
    /\ stream = <<>>
    /\ offset = 0
    /\ ret = None
    /\ displayed = <<>>
    /\ waited = FALSE
    /\ polls = 0
    /\ exitStatus = None
    /\ printed = <<>>
    /\ markers = <<>>

IdleUnchanged ==
    UNCHANGED <<args, files, pc, outpath, avprobe, probeStarted, bitrate_src,
                bitrate, force, duration, avconv, stream, offset, ret, displayed,
                waited, polls, exitStatus, printed, markers>>

SpeedometerInit ==
    /\ Idle
    /\ output_buffer = <<>>
    /\ \E k \in WindowSizes :
         /\ speedometer = RegularWindow(k)
         /\ clock = Delta * k
    /\ call = NoCall

\* speedometer.add(yn), lines 143-152
AddCall ==
    /\ call.n < MaxCalls
    /\ \E step \in ClockSteps, dy \in PositionSteps :
         LET n == Len(speedometer.y)
             yn == (IF n = 0 THEN 100 ELSE speedometer.y[n]) + dy
             t == clock + step
         IN  /\ clock' = t
             /\ speedometer' = SpeedometerAdd(speedometer, t, yn)
             /\ call' = [op |-> "add", y |-> yn, outcome |-> NoOutcome,
                         found |-> None, n |-> call.n + 1]
    /\ UNCHANGED output_buffer
    /\ IdleUnchanged

\* speedometer.speed(), lines 154-163
SpeedCall ==
    /\ call.n < MaxCalls
    /\ call' = [op |-> "speed", y |-> 0, outcome |-> SpeedOutcome(speedometer),
                found |-> None, n |-> call.n + 1]
    /\ UNCHANGED <<speedometer, clock, output_buffer>>
    /\ IdleUnchanged

SpeedometerNext == AddCall \/ SpeedCall

SpeedometerSpec == SpeedometerInit /\ [][SpeedometerNext]_vars

(***************************************************************************)
(* The position search on its own (lines 170-180): a tail buffer, empty or *)
(* nearly full of earlier output, is extended by up to MaxCalls reads and  *)
(* searched after each, as the loop does.  The transcoder's stderr carries *)
(* status lines ended by a carriage return and log lines ended by a        *)
(* newline, cut anywhere by read(16).                                      *)
(***************************************************************************)
\* what one read can return
Fragments ==
    { TimeEq \o FormatPosition(100) \o <<" ", "b">>,
      TimeEq \o FormatPosition(300) \o <<" ", "b">>,
      TimeEq \o <<"1", "2", ".", "5">>,
      <<" ", "b", "i", "t", "r", "a", "t", "e", "=", "6", "4", "k", "\r">>,
      <<"w", "a", "r", "n", "\n">> }

\* a buffer that earlier output without a position has filled up to ten
\* characters below its maxlen
PaddedBuffer == [i \in 1..(BufferMaxLen - 10) |-> "x"]

ParserInit ==
    /\ Idle
    /\ speedometer = EmptySpeedometer
    /\ clock = 0
    /\ output_buffer \in {<<>>, PaddedBuffer}
    /\ call = NoCall

\* lines 176-180: extend the buffer by what was read, search it
Feed ==
    /\ call.n < MaxCalls
    /\ \E chunk \in Fragments :
         LET buf == DequeExtend(output_buffer, chunk, BufferMaxLen)
         IN  /\ output_buffer' = buf
             /\ call' = [op |-> "search", y |-> 0, outcome |-> NoOutcome,
                         found |-> SearchPosition(buf), n |-> call.n + 1]
    /\ UNCHANGED <<speedometer, clock>>
    /\ IdleUnchanged

ParserNext == Feed

ParserSpec == ParserInit /\ [][ParserNext]_vars

(***************************************************************************)
(* Properties                                                              *)
(***************************************************************************)
Launched == avconv.state \in {"running", "exited"}
Terminated == pc \in {"done", "crashed"}
Resolved == bitrate # None

\* the progress lines that show a percentage
Shown == SelectSeq(displayed, LAMBDA l : l.kind # "unknown")

MarkersNonDecreasing ==
    \A i \in 1..(Len(markers) - 1) : markers[i] <= markers[i + 1]

\* C1: once the transcoder was started, the script ends only after it, and
\* with the exit code the transcoder ended with.
C1_ExitStatusPropagated ==
    (Terminated /\ Launched) =>
        /\ avconv.state = "exited"
        /\ avconv.rc >= 0 => exitStatus = Some(avconv.rc)

C4_HigherRequestForces ==
    (Resolved /\ args.bitrate # None /\ Val(args.bitrate) > Val(bitrate_src)) =>
        /\ bitrate = bitrate_src
        /\ force

\* C5: the monitoring loop is left only when the transcoder has ended and
\* everything it wrote to its stderr has been read.
C5_LoopDrainsStream ==
    (avconv.piped /\ pc \in {"final", "finish", "done"}) =>
        /\ avconv.state = "exited"
        /\ offset = Len(stream)

\* C6: when the positions on the stream never decrease, the percentages
\* shown never decrease, and the last line of a monitored run that has ended
\* is the 100% line.
C6_ProgressMonotone ==
    MarkersNonDecreasing =>
        /\ \A i \in 1..(Len(Shown) - 1) : Shown[i].progress <= Shown[i + 1].progress
        /\ (avconv.piped /\ pc = "done") =>
               Shown # <<>> /\ Shown[Len(Shown)].kind = "final"

\* C7: no status line shows a negative ETA.
C7_NoNegativeEta ==
    \A i \in 1..Len(displayed) :
        displayed[i].kind = "status" => displayed[i].etaMin >= 0

\* C8: the input file is removed only when -d was given and the transcoder
\* ended with status 0 (ret is set only on runs that found the input).
C8_DeleteOnlyAfterSuccess ==
    (ret # None /\ "in" \notin files) =>
        /\ args.d
        /\ avconv.state = "exited"
        /\ avconv.rc = 0

\* C9: when the transcoder cannot be started the script has said so and has
\* ended with a status other than 0; it has not waited for or polled a
\* process, has shown no progress line and has left the input file in place.
C9_LaunchFailureIsFatal ==
    avconv.state = "failed" =>
        /\ pc = "done"
        /\ exitStatus # None /\ Val(exitStatus) # 0
        /\ ~waited
        /\ polls = 0
        /\ displayed = <<>>
        /\ "in" \in files
        /\ printed # <<>> /\ printed[Len(printed)] = "avconv failed"

\* a run whose transcoder could not be started, with -d given
C9_Witness ==
    /\ avconv.state = "failed"
    /\ pc = "done"
    /\ args.d
    /\ duration # None

\* C10: the step taken when the output path exists and -y was not given ends
\* the script with a status other than 0, with neither the probe nor the
\* transcoder started.
C10_ExistingOutputIsFatal ==
    [][(pc = "exists" /\ Val(outpath) \in files /\ ~args.y) =>
         /\ pc' = "done"
         /\ exitStatus' # None /\ Val(exitStatus') # 0
         /\ ~probeStarted'
         /\ avconv'.state = "none"]_vars

\* a run ended by the existing output path (not by -o naming the input)
C10_Witness ==
    /\ pc = "done"
    /\ exitStatus = Some(1)
    /\ outpath = Some("out")
    /\ "out" \in files
    /\ ~args.y
    /\ ~probeStarted
    /\ avconv.state = "none"

\* the message was printed
Said(msg) == \E i \in 1..Len(printed) : printed[i] = msg

\* the probe was skipped (input from a pipe) or failed (tool missing, or it
\* ended with an error)
ProbeUnavailable == Said("input from pipe") \/ Said("avprobe failed")

\* C11: when the probe was skipped or failed the run goes on: the source
\* bitrate is taken as 256, the duration stays unknown, and a transcoder
\* that is needed runs unmonitored: its stderr is not piped, nothing is
\* polled or shown, and the script ends only after wait() has returned.
C11_ProbeFailureDegrades ==
    ProbeUnavailable =>
        /\ pc # "crashed"
        /\ Resolved => bitrate_src = Some(256)
        /\ duration = None
        /\ ~avconv.piped /\ stream = <<>>
        /\ polls = 0 /\ displayed = <<>>
        /\ pc = "finish" => waited
        /\ pc = "done" =>
             \/ Said("nothing to do") /\ avconv.state = "none"
             \/ avconv.state = "failed"
             \/ waited /\ avconv.state = "exited"

\* a run whose probe failed and whose transcoder was waited for
C11_Witness ==
    /\ Said("avprobe failed")
    /\ bitrate_src = Some(256)
    /\ duration = None
    /\ waited
    /\ pc = "done"
    /\ avconv.state = "exited"

\* the last retained sample
LastX(sp) == sp.x[Len(sp.x)]
LastY(sp) == sp.y[Len(sp.y)]

\* C12: add retains the sample exactly when the window is empty, or the
\* time since the last retained sample is at least delta and the position
\* differs from the last retained one by at least epsilon; a retained sample
\* becomes the last one, and any other call leaves the window as it was.
C12_AddRetainsIffFarEnough ==
    [][call'.op = "add" =>
         LET sp == speedometer
             empty == Len(sp.x) = 0
             far == /\ clock' - LastX(sp) >= Delta
                    /\ Abs(call'.y - LastY(sp)) >= Epsilon
         IN  IF empty \/ far
             THEN /\ Len(speedometer'.x) = Min(Len(sp.x) + 1, N)
                  /\ LastX(speedometer') = clock'
                  /\ LastY(speedometer') = call'.y
             ELSE speedometer' = sp]_vars

\* a second add with another position but no time passed: one sample is left
C12_Witness ==
    /\ call.op = "add"
    /\ call.n = 2
    /\ Len(speedometer.x) = 1
    /\ clock = LastX(speedometer)
    /\ call.y = LastY(speedometer) + 20

\* C13: speed() called on a window of 0 or 1 samples raises ValueError
\* ("insufficient data"): it returns no number and fails in no other way;
\* and no call of speed() changes the window.
C13_SpeedNeedsTwoSamples ==
    [][call'.op = "speed" =>
         /\ Len(speedometer.x) < 2 => call'.outcome.kind = "ValueError"
         /\ speedometer' = speedometer]_vars

\* speed() has raised ValueError on a window of one sample
C13_Witness ==
    /\ call.op = "speed"
    /\ Len(speedometer.x) = 1
    /\ call.outcome.kind = "ValueError"

\* C14: a pass of the loop body shows a line only when a position was found
\* and speed() returned a number, and then one status line; a pass that finds
\* no position, or in which speed() raises (too few samples, or a zero
\* denominator), shows nothing, does not end the script, and goes back to
\* the test of the loop.
C14_RendersOnlyWithEstimate ==
    [][(pc = "read" /\ pc' # "read") =>
         LET found == SearchPosition(output_buffer')
             asked == call' # call
             raised == asked /\ call'.outcome.kind # "value"
         IN  /\ displayed' # displayed =>
                   /\ found # None
                   /\ asked /\ call'.outcome.kind = "value"
                   /\ Len(displayed') = Len(displayed) + 1
                   /\ displayed'[Len(displayed')].kind = "status"
             /\ (found = None \/ raised) =>
                   /\ displayed' = displayed
                   /\ exitStatus' = None
                   /\ pc' = IF ret = None THEN "poll" ELSE "final"]_vars

\* a pass found a position, speed() raised on the single sample, and nothing
\* but the first line has been shown
C14_Witness ==
    /\ call.op = "add, speed"
    /\ call.outcome.kind = "ValueError"
    /\ displayed = <<UnknownLine>>
    /\ pc \in {"poll", "final"}
    /\ exitStatus = None

\* C15: when --bitrate is not given (and nothing else asks for a lower
\* bitrate), the effective bitrate is the bitrate of the source.
C15_DefaultIsSourceBitrate ==
    (Resolved /\ args.bitrate = None) => bitrate = bitrate_src

\* C16: the window never holds more than N samples and its times and
\* positions are equally many; a call of add either leaves the window as it
\* was or appends the new sample at the end, dropping the oldest sample, and
\* only it, exactly when the window was full.
C16_WindowBounded ==
    /\ [](Len(speedometer.x) = Len(speedometer.y) /\ Len(speedometer.x) <= N)
    /\ [][call'.op = "add" =>
            LET sp == speedometer
                full == Len(sp.x) = N
            IN  \/ speedometer' = sp
                \/ /\ speedometer'.x =
                        (IF full THEN Tail(sp.x) ELSE sp.x) \o <<clock'>>
                   /\ speedometer'.y =
                        (IF full THEN Tail(sp.y) ELSE sp.y) \o <<call'.y>>]_vars

\* add has kept a sample in a full window: the oldest one of the regular
\* window is gone
C16_Witness ==
    /\ call.op = "add"
    /\ Len(speedometer.x) = N
    /\ speedometer.x[1] > Delta
    /\ LastX(speedometer) = clock
    /\ LastY(speedometer) = call.y

\* slopes, in seconds of media per second, of the lines looked for
Slopes == {-1, 1, 2}

\* every sample lies on the line of slope k through the first one
OnLine(sp, k) ==
    \A i \in 1..Len(sp.x) : sp.y[i] - sp.y[1] = k * (sp.x[i] - sp.x[1])

\* C17: speed() called on two or more samples that lie on a line
\* position = k*t + c returns k: the fraction nom/den it returns has a
\* positive den and nom = k*den.
C17_SlopeOfCollinearSamples ==
    (call.op = "speed" /\ Len(speedometer.x) >= 2) =>
        \A k \in Slopes :
            OnLine(speedometer, k) =>
                /\ call.outcome.kind = "value"
                /\ call.outcome.den > 0
                /\ call.outcome.nom = k * call.outcome.den

\* speed() has returned 2 for three samples on a line of slope 2
C17_Witness ==
    /\ call.op = "speed"
    /\ Len(speedometer.x) = 3
    /\ OnLine(speedometer, 2)
    /\ call.outcome.kind = "value"
    /\ call.outcome.nom = 2 * call.outcome.den

\* the number of the last complete marker in s, wherever line ends fall
LatestMarker(s) ==
    LET hits == {i \in 1..Len(s) : MarkerEnds(s, i) # {}}
    IN  IF hits = {} THEN None
        ELSE LET i == SetMax(hits)
             IN  Some(SubSeq(s, i + 5, SetMax(MarkerEnds(s, i))))

\* C18: the search returns the number of the latest complete marker
\* "time=<number> b" in the buffer, and nothing when the buffer holds no
\* complete marker; the buffer never holds more than 256 characters.
C18_LatestMarkerExtracted ==
    call.op = "search" =>
        /\ call.found = LatestMarker(output_buffer)
        /\ Len(output_buffer) <= BufferMaxLen

\* the 100% lines shown
FinalLines == SelectSeq(displayed, LAMBDA l : l.kind = "final")

\* C19: the script ends on every fair run, monitored or not; and a monitored
\* run that has ended has shown the 100% line exactly once, as its last
\* line.
C19_TerminatesWithFinalLine ==
    /\ <>Terminated
    /\ []((Terminated /\ Launched /\ avconv.piped) =>
            /\ Len(FinalLines) = 1
            /\ displayed[Len(displayed)].kind = "final")

\* C20: with a clock that never runs backwards, neighbouring samples of the
\* window are at least delta apart in time and at least epsilon apart in
\* position; so a window of two or more samples has a positive regression
\* denominator and speed() never fails with a division by zero.
C20_SamplesApart ==
    /\ \A i \in 1..(Len(speedometer.x) - 1) :
         /\ speedometer.x[i + 1] - speedometer.x[i] >= Delta
         /\ Abs(speedometer.y[i + 1] - speedometer.y[i]) >= Epsilon
    /\ Len(speedometer.x) >= 2 => SpeedDen(speedometer) > 0
    /\ call.op = "speed" => call.outcome.kind # "ZeroDivisionError"

\* speed() has returned a number for two samples, the second of them kept by
\* add 0.3 s after the first
C20_Witness ==
    /\ call.op = "speed"
    /\ call.outcome.kind = "value"
    /\ Len(speedometer.x) = 2
    /\ speedometer.x[2] - speedometer.x[1] = 30

====
